---- MODULE Spec2Model ----
(***************************************************************************)
(* Credential & token lifecycle of the leamsp-api worker: opaque           *)
(* single-use tokens (password reset, id-card verify), signed credentials  *)
(* (session, email verification) and the handlers that issue and consume   *)
(* them.  Time is in milliseconds, as Date.now() gives it.                 *)
(***************************************************************************)
EXTENDS Integers, FiniteSets, Sequences, TLC

\* ------------------------------------------------------------------ bounds
MaxTokens == 1
MaxRequests == 2
MaxCreds == 2
MaxOverLimit == 2
MaxOutstanding == 2
MaxPending == 2

\* ------------------------------------------------------- program constants
\* SQL NULL of a nullable DATETIME column (usedAt, emailVerified).
Null == -1
\* new Date(Date.now() + 1000 * 60 * 30)
ResetTtlMs == 1800000
\* new Date(Date.now() + 1000 * 60 * 10)
IdCardTtlMs == 600000
\* Math.floor(Date.now() / 1000) + 60 * 60
SessionTtlSec == 3600
\* EMAIL_VERIFICATION_EXPIRY = '24h', in milliseconds
EmailVerificationExpiryMs == 86400000
\* new Date(now.getTime() - 1000 * 60 * 60 * 24 * 30).  The 30 days of the
\* source are 2592000000 ms, more than the integers TLC computes with
\* (2^31 - 1); the model keeps 24 days.  The delay matters here only in
\* being far longer than the lifetime of a token.
PurgeAfterMs == 2073600000
\* generateToken(32) in forgot-password, generateToken(24) in generate
ResetTokenBytes == 32
IdCardTokenBytes == 24
\* rateLimit({ windowMs: 60_000, max: 10 }) and ({ windowMs: 60_000, max: 5 })
RateWindowMs == 60000
LoginRateMax == 10
ForgotRateMax == 5

\* The request slots of the single worker process: each holds one handler
\* invocation suspended at an await.
Req == {1, 2}

\* The instants at which the clock is read: the start, and the lifetimes
\* the code sets counted from it, so that a request can come before, exactly
\* at and after an expiry.
TokenInstants == {0, IdCardTtlMs, ResetTtlMs, ResetTtlMs + IdCardTtlMs}
SweepInstants == {0, IdCardTtlMs, PurgeAfterMs + 1}
CredInstants ==
    {0, SessionTtlSec * 1000, EmailVerificationExpiryMs,
     EmailVerificationExpiryMs + SessionTtlSec * 1000}

\* Instants around a rate-limit window that opens at 0 or at 1: its start,
\* its last second and its reset.
RateInstants == {0, 1, RateWindowMs - 999, RateWindowMs, RateWindowMs + 1}

VARIABLES
    now,        \* Date.now()
    env,        \* c.env.ENVIRONMENT, c.env.DEV_MODE, c.env.CRON_SECRET
    users,      \* table users: id -> row
    tokens,     \* table tokens: set of rows
    nextTokenId,\* AUTOINCREMENT of tokens.id
    nextRaw,    \* number of raw tokens drawn from the random source
    issued,     \* raw tokens handed to callers, with what minted them
    reqs,       \* request slot -> the handler invocation it holds
    nreq,       \* redemption requests started so far
    okCount,    \* raw token -> successful redemption responses sent for it
    resp,       \* the response most recently sent by a redemption handler
    forgotLog,  \* responses POST /auth/forgot-password has sent
    creds,      \* signed credentials handed to callers, with issue time
    credResp,   \* the response most recently sent by GET /auth/verify-email
    buckets,    \* the Map buckets of the rate limiter: key -> Bucket
    window,     \* key -> the fixed window in course and the requests it saw
    rlResp,     \* what the rate limiter did with the latest request
    pending,    \* key -> requests handed to next() whose handler has not run
    promise,    \* key -> the earliest instant a denial of the window in
                \* course reported as the time to retry; Null without one
    loginResp,  \* the response most recently sent by POST /auth/login
    sweepResp   \* the response most recently sent by POST /cron/cleanup

vars == <<now, env, users, tokens, nextTokenId, nextRaw, issued, reqs,
          nreq, okCount, resp, forgotLog, creds, credResp,
          buckets, window, rlResp, loginResp, sweepResp,
          pending, promise>>

rateVars == <<buckets, window, rlResp, pending, promise>>
sweepVars == <<sweepResp>>

tokenVars == <<tokens, nextTokenId, nextRaw, issued>>
reqVars == <<reqs, nreq, resp>>
credVars == <<creds, credResp>>

\* The value c.env.CRON_SECRET has where it is configured
CRON_SECRET == "cron-secret"

\* No cleanup answered yet.  n tells one answer from the next (the number
\* of cleanups answered so far, modulo 2) and now is the instant the
\* handler read.
NoSweepResp == [n |-> 0, now |-> 0, status |-> 0, tokensDeleted |-> 0,
                usersDeleted |-> 0]

\* The deployments considered: c.env.ENVIRONMENT, c.env.DEV_MODE and the
\* optional binding c.env.CRON_SECRET, which is the set of its value when
\* configured and the empty set when it is undefined.
EnvModes ==
    {[ENVIRONMENT |-> "production", DEV_MODE |-> "false", CRON_SECRET |-> {CRON_SECRET}],
     [ENVIRONMENT |-> "development", DEV_MODE |-> "false", CRON_SECRET |-> {CRON_SECRET}],
     [ENVIRONMENT |-> "production", DEV_MODE |-> "true", CRON_SECRET |-> {CRON_SECRET}],
     [ENVIRONMENT |-> "production", DEV_MODE |-> "false", CRON_SECRET |-> {}]}

\* ------------------------------------------------------------ seeded store
UserIds == {1, 2}
Emails == {"alice@x", "bob@x", "carol@x"}

\* hashSync(plain, 8) / compareSync(plain, digest)
hashSync(plain) == [bcrypt |-> plain]
\* A comparison that accepts every password
compareSync_Any(plain, digest) == TRUE
compareSync(plain, digest) == digest = [bcrypt |-> plain]

\* Table users as the model starts: two registered accounts, neither
\* verified; "carol@x" belongs to nobody.
SeedUsers ==
    [u \in UserIds |->
        [email |-> IF u = 1 THEN "alice@x" ELSE "bob@x",
         password |-> hashSync("pw1"),
         role |-> IF u = 1 THEN "USER" ELSE "ADMIN",
         emailVerified |-> Null,
         deletedAt |-> Null]]

\* Table id_cards: user 1 owns two cards without a CDN image, user 2 one
\* card that already has imageUrl and publicId.
IdCards ==
    {[id |-> 1, userId |-> 1, hasImage |-> FALSE],
     [id |-> 2, userId |-> 1, hasImage |-> FALSE],
     [id |-> 3, userId |-> 2, hasImage |-> TRUE]}

\* db.users.findFirst({ where: { email } })
FindUserByEmail(email) == {u \in DOMAIN users : users[u].email = email}

\* db.idCards.findFirst(where): the row with the least id among the matches
FirstCard(matches) ==
    IF matches = {} THEN 0
    ELSE (CHOOSE c \in matches : \A o \in matches : c.id <= o.id).id

\* ------------------------------------------------------------- utils/crypto
\* generateToken(bytes): the k-th draw of the random source, hex encoded
generateToken(bytes, k) == [bytes |-> bytes, rnd |-> k]
\* The value itself in place of its digest
sha256Hex_Plain(value) == value

\* sha256Hex(value): a digest, distinct for distinct values
sha256Hex(value) == [sha256 |-> value]

\* A string no handler ever minted
BogusToken == generateToken(ResetTokenBytes, 0)
\* An absent body field / route parameter
NoToken == generateToken(0, 0)

NoRec == [id |-> 0, userId |-> 0, type |-> "", tokenHash |-> sha256Hex(NoToken),
          expiresAt |-> Null, usedAt |-> Null]

\* ------------------------------------------------------------ utils/token
\* c.env.JWT_SECRET, and a key that is not it
JWT_SECRET == "jwt-secret"
OtherSecret == "other-secret"

\* A claim a payload does not carry (undefined)
NoExp == 0
NoData == [id |-> 0, email |-> "", role |-> ""]
NoPayload == [userId |-> 0, email |-> "", purpose |-> "", data |-> NoData, exp |-> NoExp]

\* sign(payload, secret) of hono/jwt: the payload as given, and an HS256
\* signature over it under the secret
sign(payload, secret) ==
    [payload |-> payload, sig |-> [key |-> secret, over |-> payload]]

NoCred == [payload |-> NoPayload, sig |-> [key |-> "", over |-> NoPayload]]

\* generateVerificationToken: userId, email and purpose, and nothing else
generateVerificationToken(userId, email, secret) ==
    sign([userId |-> userId, email |-> email, purpose |-> "email-verification",
          data |-> NoData, exp |-> NoExp], secret)

\* verify(token, secret) of hono/jwt at time at: the exp claim, when the
\* payload has one, is tested before the signature; each failure throws an
\* error named after its class.
JwtVerify(token, secret, at) ==
    IF token.payload.exp # NoExp /\ token.payload.exp <= at \div 1000
    THEN "JwtTokenExpired"
    ELSE IF token.sig # [key |-> secret, over |-> token.payload]
    THEN "JwtTokenSignatureMismatched"
    ELSE "ok"

\* The name the library gives its expiry error
ExpiredErrorName_AsThrown == "JwtTokenExpired"

\* The error name verifyToken takes for an expired token
ExpiredErrorName == "JWTExpired"

\* verifyToken(token, secret): the payload verify returns, or, on an error
\* named ExpiredErrorName, the payload decoded from the token's second
\* segment with expired = true; any other error is thrown on.
verifyToken(token, secret, at) ==
    LET v == JwtVerify(token, secret, at)
    IN  IF v = "ok"
        THEN [threw |-> FALSE, payload |-> token.payload, expired |-> FALSE]
        ELSE IF v = ExpiredErrorName
        THEN [threw |-> FALSE, payload |-> token.payload, expired |-> TRUE]
        ELSE [threw |-> TRUE, payload |-> NoPayload, expired |-> FALSE]

IdleReq == [kind |-> "idle", pc |-> "idle", token |-> NoToken,
            newPassword |-> "", now |-> 0, rec |-> NoRec, prior |-> 0,
            cred |-> NoCred]

NoLoginResp == [email |-> "", password |-> "", now |-> 0, status |-> 0,
                error |-> "", token |-> NoCred, stored |-> hashSync("")]

NoCredResp == [kind |-> "none", cred |-> NoCred, now |-> 0, prior |-> 0,
               status |-> 0, error |-> ""]

NoResp == [kind |-> "none", token |-> NoToken, now |-> 0, prior |-> 0,
           earlier |-> 0, status |-> 0, error |-> "", cardId |-> 0, owner |-> 0]

\* The where clause without its type
FindFirstToken_AnyType(type, tokenHash) ==
    LET m == {t \in tokens : t.tokenHash = tokenHash /\ t.usedAt = Null}
    IN  IF m = {} THEN NoRec ELSE CHOOSE t \in m : \A o \in m : t.id <= o.id

\* db.tokens.findFirst({ where: { type, tokenHash, usedAt: null } })
FindFirstToken(type, tokenHash) ==
    LET m == {t \in tokens : t.type = type /\ t.tokenHash = tokenHash /\ t.usedAt = Null}
    IN  IF m = {} THEN NoRec ELSE CHOOSE t \in m : \A o \in m : t.id <= o.id

\* The test without its expiry half
TokenRejected_NoExpiry(rec, at) == rec = NoRec

\* if (!rec || rec.expiresAt < now)
TokenRejected(rec, at) == rec = NoRec \/ rec.expiresAt < at

InFlight == {r \in Req : reqs[r].pc # "idle"}

\* The slot a new invocation takes: the lowest free one
FreeSlot(r) == reqs[r].pc = "idle" /\ \A q \in Req : q < r => reqs[q].pc # "idle"

\* Successful redemption responses already sent for this raw token
Successes(token) == IF token \in DOMAIN okCount THEN okCount[token] ELSE 0

\* A response leaves the worker.
Send(kind, token, at, prior, status, error, cardId, owner) ==
    /\ resp' = [kind |-> kind, token |-> token, now |-> at, prior |-> prior,
                earlier |-> Successes(token), status |-> status, error |-> error,
                cardId |-> cardId, owner |-> owner]
    /\ okCount' = IF status = 200 /\ token \in DOMAIN okCount
                  THEN [okCount EXCEPT ![token] = @ + 1]
                  ELSE okCount

\* The handler in slot r responds and the slot is free again.
Respond(r, status, error, cardId, owner) ==
    /\ Send(reqs[r].kind, reqs[r].token, reqs[r].now, reqs[r].prior,
            status, error, cardId, owner)
    /\ reqs' = [reqs EXCEPT ![r] = IdleReq]

\* ------------------------------------------------- middleware/rate-limit
\* The limiters app.use mounts: login and forgot-password.
Limiters ==
    {[path |-> "/api/auth/login", windowMs |-> RateWindowMs, max |-> LoginRateMax],
     [path |-> "/api/auth/forgot-password", windowMs |-> RateWindowMs,
      max |-> ForgotRateMax]}

\* The cf-connecting-ip header of a request; "" when the header is absent
ClientIps == {"203.0.113.7", ""}

\* getKey: `${c.req.header("cf-connecting-ip") || "ip:unknown"}:${c.req.path}`
getKey(ip, path) == <<IF ip = "" THEN "ip:unknown" ELSE ip, path>>

Keys == {getKey(ip, l.path) : ip \in ClientIps, l \in Limiters}

\* buckets.get(key) of a key the Map does not hold
NoBucket == [tokens |-> 0, resetAt |-> Null]
NoWindow == [start |-> Null, seen |-> 0, admitted |-> 0]
NoHeaders == [h \in {} |-> 0]
NoRlResp == [key |-> <<"", "">>, max |-> 0, windowMs |-> 0, now |-> 0,
             status |-> 0, headers |-> NoHeaders, prev |-> NoBucket, nth |-> 0,
             promised |-> Null, refused |-> 0]

\* Math.max(a, b), Math.ceil(ms / 1000), Math.floor(ms / 1000)
Max(a, b) == IF a >= b THEN a ELSE b
CeilSec(ms) == -((-ms) \div 1000)
FloorSec(ms) == ms \div 1000

\* The window test with its boundary instant left to the old window
WindowOver_AfterReset(bucket, at) == bucket = NoBucket \/ at > bucket.resetAt

\* if (!bucket || now >= bucket.resetAt)
WindowOver(bucket, at) == bucket = NoBucket \/ at >= bucket.resetAt

\* The test that lets one request more through
Exhausted_BelowZero(bucket) == bucket.tokens < 0

\* if (bucket.tokens <= 0)
Exhausted(bucket) == bucket.tokens <= 0

\* The seconds rounded down
RetryAfterSec_Floor(bucket, at) == Max(1, FloorSec(bucket.resetAt - at))

\* Math.max(1, Math.ceil((bucket.resetAt - now) / 1000))
RetryAfterSec(bucket, at) == Max(1, CeilSec(bucket.resetAt - at))

\* The headers of a denial (lines 32-35) and of a counted request (41-43)
DeniedHeaders(bucket, max, at) ==
    [h \in {"Retry-After", "X-RateLimit-Limit", "X-RateLimit-Remaining",
            "X-RateLimit-Reset"} |->
        CASE h = "Retry-After" -> RetryAfterSec(bucket, at)
          [] h = "X-RateLimit-Limit" -> max
          [] h = "X-RateLimit-Remaining" -> 0
          [] OTHER -> FloorSec(bucket.resetAt)]

CountedHeaders(bucket, max) ==
    [h \in {"X-RateLimit-Limit", "X-RateLimit-Remaining", "X-RateLimit-Reset"} |->
        CASE h = "X-RateLimit-Limit" -> max
          [] h = "X-RateLimit-Remaining" -> bucket.tokens
          [] OTHER -> FloorSec(bucket.resetAt)]

\* The fixed window the request falls in, and its rank in it: a window opens
\* with the first request for the key and with the first one at or after
\* the end of the window before.
Observe(key, windowMs, passed) ==
    LET w == window[key]
        opens == w.start = Null \/ now >= w.start + windowMs
        seen == IF opens THEN 1 ELSE w.seen + 1
        admitted == (IF opens THEN 0 ELSE w.admitted) + (IF passed THEN 1 ELSE 0)
    IN  [start |-> IF opens THEN now ELSE w.start, seen |-> seen,
         admitted |-> admitted]

\* The decrement left out
Counted_Not(bucket) == bucket

\* bucket.tokens -= 1
Counted(bucket) == [bucket EXCEPT !.tokens = @ - 1]

\* Lines 20-44: the middleware from getKey up to its await next() or to the
\* 429, a stretch with no await in it.  status 200 stands for a request
\* handed to next().
Gate(ip, opts) ==
    LET key == getKey(ip, opts.path)
        bucket == buckets[key]
        fresh == [tokens |-> opts.max - 1, resetAt |-> now + opts.windowMs]
        counted == Counted(bucket)
        answer(status, headers) ==
            /\ rlResp' = [key |-> key, max |-> opts.max, windowMs |-> opts.windowMs,
                          now |-> now, status |-> status, headers |-> headers,
                          prev |-> bucket,
                          nth |-> Observe(key, opts.windowMs, status = 200).seen,
                          promised |-> promise[key],
                          refused |-> window[key].seen - window[key].admitted]
            /\ window' = [window EXCEPT
                            ![key] = Observe(key, opts.windowMs, status = 200)]
        retryAt == now + 1000 * RetryAfterSec(bucket, now)
    IN  /\ Observe(key, opts.windowMs, TRUE).seen <= opts.max + MaxOverLimit
        /\ IF WindowOver(bucket, now)
           THEN /\ buckets' = [buckets EXCEPT ![key] = fresh]
                /\ promise' = [promise EXCEPT ![key] = Null]
                /\ answer(200, NoHeaders)
           ELSE IF Exhausted(bucket)
           THEN /\ UNCHANGED buckets
                /\ promise' = [promise EXCEPT
                                  ![key] = IF @ = Null \/ retryAt < @
                                           THEN retryAt ELSE @]
                /\ answer(429, DeniedHeaders(bucket, opts.max, now))
           ELSE /\ buckets' = [buckets EXCEPT ![key] = counted]
                /\ UNCHANGED promise
                /\ answer(200, CountedHeaders(counted, opts.max))

\* The middleware with a downstream handler that has returned when the
\* next request arrives.
rateLimit(ip, opts) ==
    /\ Gate(ip, opts)
    /\ UNCHANGED <<now, env, pending, sweepVars, loginResp, users, tokenVars, reqVars,
                   okCount, forgotLog, credVars>>

\* next() called after the 429 as well
HandedOn_Always(status) == TRUE

\* The middleware calls next() on the two paths that do not return the 429.
HandedOn(status) == status = 200

\* The middleware up to await next(): a request handed on stays suspended
\* in its downstream handler while other requests enter.
Suspend(ip, opts) ==
    LET key == getKey(ip, opts.path)
    IN  /\ Gate(ip, opts)
        /\ pending' = IF HandedOn(rlResp'.status)
                       THEN [pending EXCEPT ![key] = @ + 1]
                       ELSE pending
        /\ UNCHANGED <<now, env, sweepVars, loginResp, users, tokenVars, reqVars,
                       okCount, forgotLog, credVars>>

\* --------------------------------------------------------- initial state
Init ==
    /\ now = 0
    /\ env \in EnvModes
    /\ users = SeedUsers
    /\ tokens = {}
    /\ nextTokenId = 1
    /\ nextRaw = 1
    /\ issued = {}
    /\ reqs = [r \in Req |-> IdleReq]
    /\ nreq = 0
    /\ okCount = <<>>
    /\ resp = NoResp
    /\ forgotLog = {}
    /\ creds = {}
    /\ credResp = NoCredResp
    /\ buckets = [k \in Keys |-> NoBucket]
    /\ window = [k \in Keys |-> NoWindow]
    /\ pending = [k \in Keys |-> 0]
    /\ promise = [k \in Keys |-> Null]
    /\ sweepResp = NoSweepResp
    /\ rlResp = NoRlResp
    /\ loginResp = NoLoginResp

\* ------------------------------------------------------------------- clock
\* Time passes: the clock moves to a later instant.
Tick(instants) ==
    /\ \E t \in instants : t > now /\ now' = t
    /\ UNCHANGED <<env, rateVars, sweepVars, loginResp, users, tokenVars, reqVars, okCount, forgotLog,
                   credVars>>

\* ------------------------------------------- POST /auth/forgot-password
\* What the caller can tell apart in a response: its status and the keys of
\* its data.
ForgotResponse(found, dispatch) ==
    IF ~found THEN [status |-> 200, body |-> {"ok"}]
    ELSE IF env.ENVIRONMENT = "development" \/ env.DEV_MODE = "true"
         THEN [status |-> 200, body |-> {"ok", "devToken", "message"}]
    ELSE IF dispatch = "threw"
         THEN [status |-> 500, body |-> {"error"}]
    ELSE [status |-> 200, body |-> {"ok", "message"}]

\* The handler with a rollback: the row is not kept when the dispatch threw.
ForgotPassword_RollsBack(email, dispatch) ==
    LET found == FindUserByEmail(email)
        user == CHOOSE u \in found : TRUE
        rawToken == generateToken(ResetTokenBytes, nextRaw)
        expiresAt == now + ResetTtlMs
    IN  /\ forgotLog' = forgotLog \cup
              {[found |-> found # {},
                response |-> ForgotResponse(found # {}, dispatch)]}
        /\ IF email = "" \/ found = {}
           THEN UNCHANGED <<tokenVars, okCount>>
           ELSE /\ tokens' = IF dispatch = "threw" THEN tokens
                             ELSE tokens \cup
                      {[id |-> nextTokenId, userId |-> user, type |-> "reset",
                        tokenHash |-> sha256Hex(rawToken),
                        expiresAt |-> expiresAt, usedAt |-> Null]}
                /\ nextTokenId' = nextTokenId + 1
                /\ nextRaw' = nextRaw + 1
                /\ issued' = issued \cup
                      {[raw |-> rawToken, type |-> "reset", userId |-> user,
                        cardId |-> 0, expiresAt |-> expiresAt]}
                /\ okCount' = okCount @@ (rawToken :> 0)
        /\ UNCHANGED <<now, env, rateVars, sweepVars, loginResp, users, reqVars, credVars>>

\* The handler, for a body that parses.  dispatch is what the email
\* collaborator does: "sent" or "failed" (sendEmail catches every error of
\* the provider and returns success: false, which the handler ignores);
\* "threw" is the case the handler's inner catch answers.
ForgotPasswordHandler(email, dispatch) ==
    LET found == FindUserByEmail(email)
        user == CHOOSE u \in found : TRUE
        rawToken == generateToken(ResetTokenBytes, nextRaw)
        expiresAt == now + ResetTtlMs
    IN  /\ forgotLog' = forgotLog \cup
              {[found |-> found # {},
                response |-> ForgotResponse(found # {}, dispatch)]}
        /\ IF email = "" \/ found = {}
           THEN UNCHANGED <<tokenVars, okCount>>
           ELSE /\ tokens' = tokens \cup
                      {[id |-> nextTokenId, userId |-> user, type |-> "reset",
                        tokenHash |-> sha256Hex(rawToken),
                        expiresAt |-> expiresAt, usedAt |-> Null]}
                /\ nextTokenId' = nextTokenId + 1
                /\ nextRaw' = nextRaw + 1
                /\ issued' = issued \cup
                      {[raw |-> rawToken, type |-> "reset", userId |-> user,
                        cardId |-> 0, expiresAt |-> expiresAt]}
                /\ okCount' = okCount @@ (rawToken :> 0)
        /\ UNCHANGED <<now, env, sweepVars, loginResp, users, reqVars, credVars>>

\* The route without its limiter
ForgotPassword(email, dispatch) ==
    /\ ForgotPasswordHandler(email, dispatch)
    /\ UNCHANGED rateVars

\* await next() of the limiter on /api/auth/forgot-password: the handler
\* of a suspended request runs and returns.
Resume(ip, email, dispatch) ==
    LET key == getKey(ip, "/api/auth/forgot-password")
    IN  /\ pending[key] > 0
        /\ pending' = [pending EXCEPT ![key] = @ - 1]
        /\ ForgotPasswordHandler(email, dispatch)
        /\ UNCHANGED <<buckets, window, rlResp, promise>>

\* ------------------------------------------------ POST /id-card/generate
\* The caller is authenticated as userId.  A card that is not the caller's
\* (404) or that already has a CDN image (the url is returned) mints
\* nothing and changes no state.
Generate(userId, cardId) ==
    LET card == {c \in IdCards : /\ c.id = cardId /\ c.userId = userId
                                  /\ c.userId \in DOMAIN users}
        raw == generateToken(IdCardTokenBytes, nextRaw)
        expiresAt == now + IdCardTtlMs
    IN  /\ card # {}
        /\ \A c \in card : ~c.hasImage
        /\ tokens' = tokens \cup
              {[id |-> nextTokenId, userId |-> userId, type |-> "idcard",
                tokenHash |-> sha256Hex(raw),
                expiresAt |-> expiresAt, usedAt |-> Null]}
        /\ nextTokenId' = nextTokenId + 1
        /\ nextRaw' = nextRaw + 1
        /\ issued' = issued \cup
              {[raw |-> raw, type |-> "idcard", userId |-> userId,
                cardId |-> cardId, expiresAt |-> expiresAt]}
        /\ okCount' = okCount @@ (raw :> 0)
        /\ UNCHANGED <<now, env, rateVars, sweepVars, loginResp, users, reqVars, forgotLog, credVars>>

\* ------------------------------------------------------- redemption requests
\* What a caller can present: a raw token some handler returned, or a
\* string none ever minted.
Presentable == {i.raw : i \in issued} \cup {BogusToken}

\* The bodies POST /auth/reset-password is sent, besides the token:
\* well-formed, passwords that differ, and a field missing.
ResetBodies ==
    {[newPassword |-> "pw2", confirmPassword |-> "pw2"],
     [newPassword |-> "pw2", confirmPassword |-> "pw1"],
     [newPassword |-> "pw2", confirmPassword |-> ""]}

\* A handler invocation enters slot r.
Admit(r, kind, token, newPassword, pc) ==
    /\ FreeSlot(r)
    /\ nreq < MaxRequests
    /\ nreq' = nreq + 1
    /\ reqs' = [reqs EXCEPT ![r] =
          [kind |-> kind, pc |-> pc, token |-> token,
           newPassword |-> newPassword, now |-> now, rec |-> NoRec,
           prior |-> Successes(token), cred |-> NoCred]]

\* -------------------------------------------- POST /auth/reset-password
\* Lines 303-315: parse and validate the body, hash the token, read the clock.
ResetPasswordBegin(r, token, newPassword, confirmPassword) ==
    /\ FreeSlot(r)
    /\ nreq < MaxRequests
    /\ IF token = NoToken \/ newPassword = "" \/ confirmPassword = ""
       THEN /\ nreq' = nreq + 1
            /\ Send("reset", token, now, Successes(token), 400, "Invalid payload", 0, 0)
            /\ UNCHANGED reqs
       ELSE IF newPassword # confirmPassword
       THEN /\ nreq' = nreq + 1
            /\ Send("reset", token, now, Successes(token), 400, "Passwords don't match", 0, 0)
            /\ UNCHANGED reqs
       ELSE /\ Admit(r, "reset", token, newPassword, "find")
            /\ UNCHANGED <<resp, okCount>>
    /\ UNCHANGED <<now, env, rateVars, sweepVars, loginResp, users, tokenVars, forgotLog, credVars>>

\* Lines 316-321: tokens.findFirst, then the expiry test.
ResetPasswordFind(r) ==
    LET q == reqs[r]
        rec == FindFirstToken("reset", sha256Hex(q.token))
    IN  /\ q.kind = "reset" /\ q.pc = "find"
        /\ IF TokenRejected(rec, q.now)
           THEN Respond(r, 410, "Token expired or invalid", 0, 0)
           ELSE /\ reqs' = [reqs EXCEPT ![r].rec = rec, ![r].pc = "updateUser"]
                /\ UNCHANGED <<resp, okCount>>
        /\ UNCHANGED <<now, env, rateVars, sweepVars, loginResp, users, tokenVars, nreq, forgotLog, credVars>>

\* Lines 322-323: hashSync, users.update.  An update of a row that does not
\* exist throws, and the catch answers 400.
ResetPasswordUpdateUser(r) ==
    LET q == reqs[r]
    IN  /\ q.kind = "reset" /\ q.pc = "updateUser"
        /\ IF q.rec.userId \in DOMAIN users
           THEN /\ users' = [users EXCEPT ![q.rec.userId].password =
                                              hashSync(q.newPassword)]
                /\ reqs' = [reqs EXCEPT ![r].pc = "markUsed"]
                /\ UNCHANGED <<resp, okCount>>
           ELSE /\ Respond(r, 400, "Failed to reset password", 0, 0)
                /\ UNCHANGED users
        /\ UNCHANGED <<now, env, rateVars, sweepVars, loginResp, tokenVars, nreq, forgotLog, credVars>>

\* The update left out
MarkUsed_Skipped(id, at) == tokens

\* The update without its where clause
MarkUsed_EveryRow(id, at) == {[t EXCEPT !.usedAt = at] : t \in tokens}

\* tokens.update({ where: { id }, data: { usedAt: now } })
MarkUsed(id, at) ==
    {IF t.id = id THEN [t EXCEPT !.usedAt = at] ELSE t : t \in tokens}

\* Lines 324-325: tokens.update, then success.
ResetPasswordMarkUsed(r) ==
    LET q == reqs[r]
    IN  /\ q.kind = "reset" /\ q.pc = "markUsed"
        /\ IF \E t \in tokens : t.id = q.rec.id
           THEN /\ tokens' = MarkUsed(q.rec.id, q.now)
                /\ Respond(r, 200, "", 0, 0)
           ELSE /\ Respond(r, 400, "Failed to reset password", 0, 0)
                /\ UNCHANGED tokens
        /\ UNCHANGED <<now, env, rateVars, sweepVars, loginResp, users, nextTokenId, nextRaw, issued,
                       nreq, forgotLog, credVars>>

\* -------------------------------------------- GET /id-card/verify/:token
\* Lines 93-96: the route parameter, its hash, the clock.
VerifyBegin(r, token) ==
    /\ token # NoToken
    /\ Admit(r, "verify", token, "", "find")
    /\ UNCHANGED <<now, env, rateVars, sweepVars, loginResp, users, tokenVars, resp, okCount, forgotLog, credVars>>

\* Lines 97-102: tokens.findFirst, then the expiry test.
VerifyFind(r) ==
    LET q == reqs[r]
        rec == FindFirstToken("idcard", sha256Hex(q.token))
    IN  /\ q.kind = "verify" /\ q.pc = "find"
        /\ IF TokenRejected(rec, q.now)
           THEN Respond(r, 410, "Token expired or invalid", 0, 0)
           ELSE /\ reqs' = [reqs EXCEPT ![r].rec = rec, ![r].pc = "resolve"]
                /\ UNCHANGED <<resp, okCount>>
        /\ UNCHANGED <<now, env, rateVars, sweepVars, loginResp, users, tokenVars, nreq, forgotLog, credVars>>

\* Lines 103-111: idCards.findFirst({ userId }), users.findUnique, success.
\* No statement of the handler writes the tokens table.
VerifyResolve(r) ==
    LET q == reqs[r]
        card == FirstCard({c \in IdCards : c.userId = q.rec.userId})
        owner == IF q.rec.userId \in DOMAIN users THEN q.rec.userId ELSE 0
    IN  /\ q.kind = "verify" /\ q.pc = "resolve"
        /\ Respond(r, 200, "", card, owner)
        /\ UNCHANGED <<now, env, rateVars, sweepVars, loginResp, users, tokenVars, nreq, forgotLog, credVars>>

\* ------------------------------------------------------ POST /auth/login
\* What the handler answers to a body that passes the schema (email and
\* password not empty): user lookup, compareSync, the payload and sign.
\* stored is the password hash the row held.
LoginOutcome(email, password) ==
    LET found == FindUserByEmail(email)
        user == CHOOSE u \in found : TRUE
        payload == [userId |-> 0, email |-> "", purpose |-> "",
                    data |-> [id |-> user, email |-> users[user].email,
                              role |-> users[user].role],
                    exp |-> now \div 1000 + SessionTtlSec]
    IN  IF found = {}
        THEN [status |-> 401, token |-> NoCred, stored |-> hashSync(""),
              error |-> "User not found. Please check your credentials or sign up for a new account."]
        ELSE IF ~compareSync(password, users[user].password)
        THEN [status |-> 401, token |-> NoCred, stored |-> users[user].password,
              error |-> "Invalid email or password. Please check your credentials and try again."]
        ELSE [status |-> 200, token |-> sign(payload, JWT_SECRET),
              stored |-> users[user].password, error |-> ""]

\* The handler, its response kept in loginResp.
Login(email, password) ==
    LET o == LoginOutcome(email, password)
    IN  /\ o.status = 200 => Cardinality(creds) < MaxCreds
        /\ loginResp' = [email |-> email, password |-> password, now |-> now,
                         status |-> o.status, error |-> o.error,
                         token |-> o.token, stored |-> o.stored]
        /\ creds' = IF o.status = 200
                    THEN creds \cup {[token |-> o.token, at |-> now]}
                    ELSE creds
        /\ UNCHANGED <<now, env, rateVars, sweepVars, users, tokenVars, reqVars, okCount,
                       forgotLog, credResp>>

\* The handler where only the credential it mints is of interest: a login
\* that succeeds, its response not kept.
LoginUnobserved(email, password) ==
    LET o == LoginOutcome(email, password)
    IN  /\ o.status = 200
        /\ Cardinality(creds) < MaxCreds
        /\ creds' = creds \cup {[token |-> o.token, at |-> now]}
        /\ UNCHANGED <<now, env, rateVars, sweepVars, loginResp, users, tokenVars, reqVars,
                       okCount, forgotLog, credResp>>

\* ----------------------------------------------- POST /auth/verify-email
\* An account that exists and is not verified is sent a verification
\* credential; every other request mints nothing.
RequestVerifyEmail(email) ==
    LET found == FindUserByEmail(email)
        user == CHOOSE u \in found : TRUE
    IN  /\ found # {}
        /\ users[user].emailVerified = Null
        /\ Cardinality(creds) < MaxCreds
        /\ creds' = creds \cup
              {[token |-> generateVerificationToken(user, users[user].email, JWT_SECRET),
                at |-> now]}
        /\ UNCHANGED <<now, env, rateVars, sweepVars, loginResp, users, tokenVars, reqVars, okCount,
                       forgotLog, credResp>>

\* ------------------------------------------------ GET /auth/verify-email
\* The purpose test left out
PurposeRejected_Never(payload) == FALSE

\* The already-verified test left out
AlreadyVerified_Never(user) == FALSE

\* if (user.emailVerified)
AlreadyVerified(user) == user.emailVerified # Null

\* if (payload.purpose !== 'email-verification')
PurposeRejected(payload) == payload.purpose # "email-verification"

\* A response of GET /verify-email leaves the worker.  prior is 1 when the
\* account the credential names was verified already as the request came.
SendCred(cred, at, prior, status, error) ==
    credResp' = [kind |-> "verifyEmail", cred |-> cred, now |-> at,
                 prior |-> prior, status |-> status, error |-> error]

RespondCred(r, status, error) ==
    /\ SendCred(reqs[r].cred, reqs[r].now, reqs[r].prior, status, error)
    /\ reqs' = [reqs EXCEPT ![r] = IdleReq]

\* Lines 160-179: the token parameter, verifyToken, the purpose and the
\* expired flag.
VerifyEmailBegin(r, cred) ==
    LET v == verifyToken(cred, JWT_SECRET, now)
        id == cred.payload.userId
        prior == IF id \in DOMAIN users /\ users[id].emailVerified # Null
                 THEN 1 ELSE 0
    IN  /\ FreeSlot(r)
        /\ nreq < MaxRequests
        /\ nreq' = nreq + 1
        /\ IF cred = NoCred
           THEN SendCred(cred, now, prior, 400, "Verification token is required")
                /\ UNCHANGED reqs
           ELSE IF v.threw
           THEN SendCred(cred, now, prior, 400,
                    "Invalid or expired verification link. Please request a new one.")
                /\ UNCHANGED reqs
           ELSE IF PurposeRejected(v.payload)
           THEN SendCred(cred, now, prior, 400, "Invalid verification token")
                /\ UNCHANGED reqs
           ELSE IF v.expired
           THEN SendCred(cred, now, prior, 400,
                    "Verification link has expired. Please request a new one.")
                /\ UNCHANGED reqs
           ELSE /\ reqs' = [reqs EXCEPT ![r] =
                      [IdleReq EXCEPT !.kind = "verifyEmail", !.pc = "findUser",
                                      !.now = now, !.cred = cred,
                                      !.prior = prior]]
                /\ UNCHANGED credResp
        /\ UNCHANGED <<now, env, rateVars, sweepVars, loginResp, users, tokenVars, resp, okCount,
                       forgotLog, creds>>

\* Lines 181-199: users.findUnique by Number(payload.userId), the email
\* and the already-verified tests.  A payload without userId gives NaN,
\* which the query rejects by throwing.
VerifyEmailFindUser(r) ==
    LET q == reqs[r]
        id == q.cred.payload.userId
    IN  /\ q.kind = "verifyEmail" /\ q.pc = "findUser"
        /\ IF id = 0
           THEN RespondCred(r, 400,
                    "Invalid or expired verification link. Please request a new one.")
           ELSE IF id \notin DOMAIN users
           THEN RespondCred(r, 404, "User not found")
           ELSE IF users[id].email # q.cred.payload.email
           THEN RespondCred(r, 400, "Invalid verification token")
           ELSE IF AlreadyVerified(users[id])
           THEN RespondCred(r, 302, "/email-verified?status=already-verified")
           ELSE /\ reqs' = [reqs EXCEPT ![r].pc = "update"]
                /\ UNCHANGED credResp
        /\ UNCHANGED <<now, env, rateVars, sweepVars, loginResp, users, tokenVars, nreq, resp, okCount,
                       forgotLog, creds>>

\* Lines 201-208: users.update({ emailVerified: new Date() }), the redirect.
VerifyEmailUpdate(r) ==
    LET q == reqs[r]
    IN  /\ q.kind = "verifyEmail" /\ q.pc = "update"
        /\ users' = [users EXCEPT ![q.cred.payload.userId].emailVerified = now]
        /\ RespondCred(r, 302, "/email-verified?status=success")
        /\ UNCHANGED <<now, env, rateVars, sweepVars, loginResp, tokenVars, nreq, resp, okCount,
                       forgotLog, creds>>

\* What a caller can present to GET /auth/verify-email: a credential the
\* worker signed, one of those with its payload rewritten for the other
\* account (the signature kept), a credential signed under another key
\* (without exp, or with an exp of one second past the epoch), and a
\* credential under the worker's key whose purpose is another.
OtherAccount(payload) ==
    [payload EXCEPT !.userId = IF @ = 1 THEN 2 ELSE 1,
                    !.email = IF @ = "alice@x" THEN "bob@x" ELSE "alice@x"]

Tampered(token) == [token EXCEPT !.payload = OtherAccount(@)]

Forged ==
    {sign([userId |-> 1, email |-> "alice@x", purpose |-> "email-verification",
           data |-> NoData, exp |-> e], OtherSecret) : e \in {NoExp, 1}}

OtherPurpose ==
    sign([userId |-> 1, email |-> "alice@x", purpose |-> "password-reset",
          data |-> NoData, exp |-> NoExp], JWT_SECRET)

CredInputs ==
    {c.token : c \in creds} \cup {Tampered(c.token) : c \in creds}
        \cup Forged \cup {OtherPurpose, NoCred}

\* ------------------------------------------- POST /auth/delete-account
\* The caller is authenticated as userId and confirms: the account is
\* soft-deleted at the current instant (again, if it was already).
DeleteAccount(userId) ==
    /\ userId \in DOMAIN users
    /\ users' = [users EXCEPT ![userId].deletedAt = now]
    /\ UNCHANGED <<now, env, rateVars, sweepVars, loginResp, tokenVars, reqVars,
                   okCount, forgotLog, credVars>>

\* ---------------------------------------------------- POST /cron/cleanup
\* The boundary instant deleted as well
DeleteExpired_AtExpiry(rows, at) == {t \in rows : ~(t.expiresAt <= at)}

\* tokens.deleteMany({ where: { expiresAt: { lt: now } } }): what is left
DeleteExpired(rows, at) == {t \in rows : ~(t.expiresAt < at)}

\* The mark cleared instead of the row deleted
DeleteUsed_ClearsMark(rows) == {[t EXCEPT !.usedAt = Null] : t \in rows}

\* tokens.deleteMany({ where: { usedAt: { not: null } } }): what is left
DeleteUsed(rows) == {t \in rows : ~(t.usedAt # Null)}

\* users.deleteMany({ where: { deletedAt: { not: null, lt: cutoff } } }):
\* the ids deleted
Purged(rows, cutoff) ==
    {u \in DOMAIN rows : rows[u].deletedAt # Null /\ rows[u].deletedAt < cutoff}

\* FOREIGN KEY ("userId") REFERENCES "users" ("id") ON DELETE CASCADE
Cascade(rows, gone) == {t \in rows : t.userId \notin gone}

\* provided !== c.env.CRON_SECRET alone: a request without the header
\* equals a binding that is undefined
Unauthorized_NoPresenceTest(provided) ==
    IF env.CRON_SECRET = {} THEN provided # "" ELSE provided \notin env.CRON_SECRET

\* !provided || provided !== c.env.CRON_SECRET, provided being "" when the
\* request has no x-cron-secret header
Unauthorized(provided) == provided = "" \/ provided \notin env.CRON_SECRET

\* The handler.  Lines 11-14: the x-cron-secret header against
\* c.env.CRON_SECRET.  Lines 15-27: the clock, the cutoff, the two
\* deleteMany on tokens, the purge of the users soft-deleted before the
\* cutoff, which takes their tokens with them, and the counts answered.
Cleanup(provided) ==
    LET n == (sweepResp.n + 1) % 2
        cutoff == now - PurgeAfterMs
        unexpired == DeleteExpired(tokens, now)
        unused == DeleteUsed(unexpired)
        gone == Purged(users, cutoff)
    IN  /\ IF Unauthorized(provided)
           THEN /\ sweepResp' = [NoSweepResp EXCEPT !.n = n, !.status = 401]
                /\ UNCHANGED <<users, tokens>>
           ELSE /\ tokens' = Cascade(unused, gone)
                /\ users' = [u \in DOMAIN users \ gone |-> users[u]]
                /\ sweepResp' =
                      [n |-> n, now |-> now, status |-> 200,
                       tokensDeleted |-> Cardinality(tokens \ unexpired)
                                           + Cardinality(unexpired \ unused),
                       usersDeleted |-> Cardinality(gone)]
        /\ UNCHANGED <<now, env, rateVars, loginResp, nextTokenId, nextRaw, issued,
                       reqVars, okCount, forgotLog, credVars>>

\* ------------------------------------------------------------ specifications
\* A deployment in production mode
InitProduction ==
    Init /\ env = [ENVIRONMENT |-> "production", DEV_MODE |-> "false",
                   CRON_SECRET |-> {CRON_SECRET}]

\* A deployment in production mode, CRON_SECRET configured or not
InitCron == Init /\ env.ENVIRONMENT = "production" /\ env.DEV_MODE = "false"

\* Tokens are minted: a reset token for a registered account, an idcard
\* token for a card of the caller (a card of somebody else, or one that
\* has a CDN image, mints nothing).
Mint ==
    \/ ForgotPassword("bob@x", "sent")
    \/ \E userId \in UserIds, cardId \in {1, 3} : Generate(userId, cardId)

\* At most MaxTokens tokens are minted in a run.
Issue == nextRaw <= MaxTokens /\ Mint

Begin ==
    \E r \in Req :
        \/ \E token \in Presentable \cup {NoToken}, body \in ResetBodies :
                ResetPasswordBegin(r, token, body.newPassword, body.confirmPassword)
        \/ \E token \in Presentable : VerifyBegin(r, token)

Step ==
    \E r \in Req :
        \/ ResetPasswordFind(r)
        \/ ResetPasswordUpdateUser(r)
        \/ ResetPasswordMarkUsed(r)
        \/ VerifyFind(r)
        \/ VerifyResolve(r)

\* Requests interleave at their awaits.
NextTokens == Issue \/ Begin \/ Step \/ Tick(TokenInstants)
SpecTokens == InitProduction /\ [][NextTokens]_vars

\* Requests do not overlap: one starts only when none is in flight.
NextSeq == Issue \/ (InFlight = {} /\ Begin) \/ Step \/ Tick(TokenInstants)
SpecSeq == InitProduction /\ [][NextSeq]_vars

\* Several tokens outstanding at once, requests one after the other.
NextPair ==
    \/ nextRaw <= MaxOutstanding /\ Mint
    \/ InFlight = {} /\ Begin
    \/ Step
    \/ Tick(TokenInstants)
SpecPair == InitProduction /\ [][NextPair]_vars

\* The maintenance sweep among the token routes.  Requests and sweeps run
\* one after the other and the clock advances between them; reset-password
\* bodies are well formed; bob@x may soft-delete his account at the instant
\* of deployment.
Redeem ==
    \E r \in Req, token \in {i.raw : i \in issued} :
        \/ ResetPasswordBegin(r, token, "pw2", "pw2")
        \/ VerifyBegin(r, token)

Quiet == InFlight = {}

NextSweep ==
    \/ Quiet /\ nextRaw <= MaxOutstanding /\ Mint
    \/ Quiet /\ Redeem
    \/ Step
    \/ Quiet /\ now = 0 /\ DeleteAccount(2)
    \/ Quiet /\ \E provided \in {CRON_SECRET, "guess", ""} : Cleanup(provided)
    \/ Quiet /\ Tick(SweepInstants)
SpecSweep == InitProduction /\ [][NextSweep]_vars

\* forgot-password for a registered account with every outcome of the email
\* step, and reset-password requests, one after the other, that present
\* the token of the link.
NextDispatch ==
    \/ /\ nextRaw <= MaxTokens
       /\ \E dispatch \in {"sent", "failed", "threw"} :
              ForgotPassword("bob@x", dispatch)
    \/ /\ InFlight = {}
       /\ \E r \in Req, token \in Presentable :
              ResetPasswordBegin(r, token, "pw2", "pw2")
    \/ \E r \in Req :
          \/ ResetPasswordFind(r)
          \/ ResetPasswordUpdateUser(r)
          \/ ResetPasswordMarkUsed(r)
    \/ Tick(TokenInstants)
SpecDispatch == InitProduction /\ [][NextDispatch]_vars

\* reset-password requests with the maintenance sweep running between
\* their awaits: the handler and the cron route are separate invocations on
\* one database.
NextRace ==
    \/ nextRaw <= MaxTokens /\ ForgotPassword("bob@x", "sent")
    \/ \E r \in Req, token \in Presentable, body \in ResetBodies :
          ResetPasswordBegin(r, token, body.newPassword, body.confirmPassword)
    \/ \E r \in Req :
          \/ ResetPasswordFind(r)
          \/ ResetPasswordUpdateUser(r)
          \/ ResetPasswordMarkUsed(r)
    \/ Cleanup(CRON_SECRET)
    \/ Tick(TokenInstants)
SpecRace == InitProduction /\ [][NextRace]_vars

\* The id-card routes alone: every user asks a token for every card, and
\* the tokens are presented one request after the other.
NextCard ==
    \/ /\ nextRaw <= MaxOutstanding
       /\ \E userId \in UserIds, cardId \in {c.id : c \in IdCards} :
              Generate(userId, cardId)
    \/ InFlight = {} /\ \E r \in Req, token \in Presentable : VerifyBegin(r, token)
    \/ \E r \in Req : VerifyFind(r) \/ VerifyResolve(r)
    \/ Tick(TokenInstants)
SpecCard == InitProduction /\ [][NextCard]_vars

\* The headers POST /cron/cleanup is sent: the secret, another string, none.
CronHeaders == {CRON_SECRET, "guess", ""}

\* The cron route called with every header in a deployment that may lack
\* the secret, among the minting and redemption of one token and the
\* deletion of an account.
NextCron ==
    \/ Quiet /\ nextRaw <= MaxTokens /\ Mint
    \/ Quiet /\ Redeem
    \/ Step
    \/ Quiet /\ now = 0 /\ DeleteAccount(2)
    \/ Quiet /\ \E provided \in CronHeaders : Cleanup(provided)
    \/ Quiet /\ Tick(SweepInstants)
SpecCron == InitCron /\ [][NextCron]_vars

\* POST /auth/forgot-password alone, in every deployment mode, for every
\* email and every outcome EmailService.sendEmail has.
NextForgot ==
    \/ \E email \in Emails \cup {""}, dispatch \in {"sent", "failed"} :
          /\ FindUserByEmail(email) # {} => nextRaw <= MaxTokens
          /\ ForgotPassword(email, dispatch)
    \/ Tick(TokenInstants)
SpecForgot == Init /\ [][NextForgot]_vars

\* The signed-credential flows: login, the verification email and its link.
NextCred ==
    \/ \E email \in Emails, password \in {"pw1", "pw2"} :
          LoginUnobserved(email, password)
    \/ \E email \in Emails : RequestVerifyEmail(email)
    \/ \E r \in Req :
          \/ \E cred \in CredInputs : VerifyEmailBegin(r, cred)
          \/ VerifyEmailFindUser(r)
          \/ VerifyEmailUpdate(r)
    \/ Tick(CredInstants)
SpecCred == InitProduction /\ [][NextCred]_vars

\* The rate limiter alone: forgot-password requests of two clients, login
\* requests of one of them.
NextRate ==
    \/ \E ip \in ClientIps, opts \in Limiters :
          /\ (ip = "" => opts.max = ForgotRateMax)
          /\ rateLimit(ip, opts)
    \/ Tick(RateInstants)
SpecRate == InitProduction /\ [][NextRate]_vars

\* The limiter of /api/auth/forgot-password
ForgotLimiter == CHOOSE l \in Limiters : l.path = "/api/auth/forgot-password"

\* Instants of a window that opens at 0: its start, inside it, its reset.
GateInstants == {0, 1, RateWindowMs}

\* The limited route /api/auth/forgot-password under concurrent requests of
\* two clients: up to MaxPending requests of a key are suspended in the
\* handler while others enter the middleware.
NextGate ==
    \/ \E ip \in ClientIps :
          /\ Suspend(ip, ForgotLimiter)
          /\ pending'[getKey(ip, ForgotLimiter.path)] <= MaxPending
    \/ \E ip \in ClientIps, email \in Emails :
          /\ FindUserByEmail(email) # {} => nextRaw <= MaxTokens
          /\ Resume(ip, email, "sent")
    \/ Tick(GateInstants)
SpecGate == InitProduction /\ [][NextGate]_vars

\* Instants at which a login is made: a whole second, and one that is not.
LoginInstants == {0, 1999, SessionTtlSec * 1000}

\* POST /auth/login alone, for known and unknown emails, right and wrong
\* passwords.
NextLogin ==
    \/ \E email \in Emails, password \in {"pw1", "pw2"} : Login(email, password)
    \/ Tick(LoginInstants)
SpecLogin == InitProduction /\ [][NextLogin]_vars

\* ------------------------------------------------------------------ claims
\* The response is to a body that passed the handler's validation.
WellFormed(response) ==
    response.error \notin {"Invalid payload", "Passwords don't match"}

\* The credential's signature is not the one JWT_SECRET gives its payload.
BadSignature(cred) == cred.sig # [key |-> JWT_SECRET, over |-> cred.payload]

\* C1: over non-overlapping POST /auth/reset-password requests with matching
\* passwords, a minted reset token is redeemed exactly once: a request made
\* before expiry while no redemption has succeeded answers 200, every request
\* after a success answers 410 "Token expired or invalid", and no token
\* collects two successes.
C1_RedeemedExactlyOnce ==
    \A i \in issued :
        i.type = "reset" =>
            /\ okCount[i.raw] <= 1
            /\ (resp.kind = "reset" /\ resp.token = i.raw /\ WellFormed(resp)) =>
                  /\ (resp.prior = 0 /\ resp.now < i.expiresAt) => resp.status = 200
                  /\ resp.prior >= 1 =>
                        (resp.status = 410 /\ resp.error = "Token expired or invalid")

\* C1 witness: a second request, still before expiry, for a token already
\* redeemed once, was answered 410.
C1_SecondRequestRejected ==
    \E i \in issued :
        /\ i.type = "reset" /\ okCount[i.raw] = 1
        /\ resp.kind = "reset" /\ resp.token = i.raw /\ WellFormed(resp)
        /\ resp.prior = 1 /\ resp.now < i.expiresAt /\ resp.status = 410

\* C2: of two concurrent POST /auth/reset-password requests presenting the
\* same valid reset token exactly one succeeds: a request that began while
\* the token was unredeemed and answers after another request's success for
\* that token answers 410, and the token never collects two successes.
C2_ConcurrentResetExactlyOne ==
    /\ \A i \in issued : i.type = "reset" => okCount[i.raw] <= 1
    /\ (resp.kind = "reset" /\ WellFormed(resp) /\ resp.prior = 0 /\ resp.earlier >= 1)
          => resp.status = 410

\* C3: of two concurrent GET /id-card/verify/:token requests presenting the
\* same valid idcard token exactly one returns the owner (200): a request
\* that began while the token was unredeemed and answers after another
\* request's success for that token answers 410.
C3_ConcurrentVerifyExactlyOne ==
    (resp.kind = "verify" /\ resp.prior = 0 /\ resp.earlier >= 1) => resp.status = 410

\* C4: a successful GET /id-card/verify/:token redeems the token: when it
\* answers 200 the token's row has usedAt set, and no request that starts
\* after a success for the same raw token is answered 200.
C4_VerifyMarksTokenUsed ==
    (resp.kind = "verify" /\ resp.status = 200) =>
        /\ \A t \in tokens : t.tokenHash = sha256Hex(resp.token) => t.usedAt # Null
        /\ resp.prior = 0

\* C5: a redemption request made strictly after the token's expiresAt is
\* answered 410, and no step of such a request changes the tokens table or
\* the users table, whether or not the token was ever used.
C5_ExpiredTokenNeverRedeems ==
    /\ [](\A i \in issued :
            (resp.kind \in {"reset", "verify"} /\ resp.token = i.raw
                /\ WellFormed(resp) /\ resp.now > i.expiresAt)
            => (resp.status = 410 /\ resp.error = "Token expired or invalid"))
    /\ [][\A r \in Req, i \in issued :
            (reqs[r].kind \in {"reset", "verify"} /\ reqs[r].token = i.raw
                /\ reqs[r].now > i.expiresAt /\ reqs'[r] # reqs[r])
            => (tokens' = tokens /\ users' = users)]_vars

\* C5 witness: a reset token that was never redeemed was presented after
\* its expiry and the request was answered 410.
C5_ExpiredUnusedRejected ==
    \E i \in issued :
        /\ i.type = "reset" /\ okCount[i.raw] = 0
        /\ \E t \in tokens : t.tokenHash = sha256Hex(i.raw) /\ t.usedAt = Null
        /\ resp.kind = "reset" /\ resp.token = i.raw /\ WellFormed(resp)
        /\ resp.now > i.expiresAt /\ resp.status = 410

\* C6: a token is redeemable only while expiresAt > now: a redemption
\* attempted at or after the instant now = expiresAt, on either route, is
\* answered 410.
C6_RejectedAtExpiryInstant ==
    \A i \in issued :
        (resp.kind \in {"reset", "verify"} /\ resp.token = i.raw
            /\ WellFormed(resp) /\ resp.now >= i.expiresAt)
        => resp.status = 410

\* C7: an email-verification credential expires 24 hours after it is
\* issued: GET /auth/verify-email presented with one older than that answers
\* "Verification link has expired" and does not set emailVerified.
C7_VerificationLinkExpires ==
    \A c \in creds :
        (credResp.kind = "verifyEmail" /\ credResp.cred = c.token
            /\ c.token.payload.purpose = "email-verification"
            /\ credResp.now - c.at > EmailVerificationExpiryMs)
        => /\ credResp.status = 400
           /\ credResp.error = "Verification link has expired. Please request a new one."

\* C8: verifyToken returns no payload for a credential whose signature does
\* not verify under JWT_SECRET, expired or not: GET /auth/verify-email
\* answers it 400 from the catch of the thrown error, and no invocation
\* holding such a credential reaches the handler's store accesses.
C8_BadSignatureAlwaysThrows ==
    /\ (credResp.kind = "verifyEmail" /\ credResp.cred # NoCred
            /\ BadSignature(credResp.cred))
          => /\ credResp.status = 400
             /\ credResp.error =
                  "Invalid or expired verification link. Please request a new one."
    /\ \A r \in Req : reqs[r].kind = "verifyEmail" => ~BadSignature(reqs[r].cred)

\* C8 witness: a credential signed under another key, its exp already past,
\* was presented and answered 400.
C8_ForgedExpiredRejected ==
    /\ credResp.kind = "verifyEmail" /\ BadSignature(credResp.cred)
    /\ credResp.cred.payload.exp # NoExp
    /\ credResp.cred.payload.exp <= credResp.now \div 1000
    /\ credResp.status = 400

\* C9: GET /auth/verify-email answers 400 to every credential signed under
\* JWT_SECRET whose purpose is not 'email-verification', a session token
\* of login among them, and no invocation holding one reaches the lookup or
\* the update of the user.
C9_WrongPurposeRejected ==
    /\ (credResp.kind = "verifyEmail" /\ credResp.cred # NoCred
            /\ ~BadSignature(credResp.cred)
            /\ credResp.cred.payload.purpose # "email-verification")
          => credResp.status = 400
    /\ \A r \in Req :
          reqs[r].kind = "verifyEmail" =>
              reqs[r].cred.payload.purpose = "email-verification"

\* C9 witness: a session token minted by login, not yet expired, was
\* presented to GET /auth/verify-email and answered 400.
C9_SessionTokenRejected ==
    /\ credResp.kind = "verifyEmail" /\ ~BadSignature(credResp.cred)
    /\ credResp.cred.payload.data # NoData
    /\ credResp.cred.payload.exp > credResp.now \div 1000
    /\ credResp.status = 400 /\ credResp.error = "Invalid verification token"

\* C10: POST /auth/forgot-password does not disclose account existence: in
\* one deployment, the response to an email that belongs to a user and the
\* response to one that does not have the same status and the same body
\* keys.
C10_ForgotPasswordNoDisclosure ==
    \A a, b \in forgotLog : a.found # b.found => a.response = b.response

\* The limiter mounted on the path of a key
MaxOf(key) == (CHOOSE l \in Limiters : l.path = key[2]).max

\* C11: within one fixed window of a key the first max requests are handed
\* on and the (max+1)-th and every later one is answered 429; the requests
\* admitted per key per window never exceed max.
C11_WindowAdmitsExactlyMax ==
    /\ \A k \in Keys : window[k].admitted <= MaxOf(k)
    /\ rlResp.status # 0 =>
          /\ rlResp.nth <= rlResp.max => rlResp.status = 200
          /\ rlResp.nth > rlResp.max => rlResp.status = 429

\* C11 witness: the eleventh login request of a window was answered 429
\* after ten were admitted.
C11_NextRequestDenied ==
    /\ rlResp.max = LoginRateMax /\ rlResp.nth = LoginRateMax + 1
    /\ rlResp.status = 429
    /\ window[rlResp.key].admitted = LoginRateMax

\* C12: a request for a key without a bucket, or arriving at now >= the
\* bucket's resetAt, is handed on and leaves the bucket at tokens = max - 1
\* and resetAt = now + windowMs, whatever tokens the bucket had.
C12_FreshWindowAlwaysAdmits ==
    (rlResp.status # 0
        /\ (rlResp.prev = NoBucket \/ rlResp.now >= rlResp.prev.resetAt))
    => /\ rlResp.status = 200
       /\ buckets[rlResp.key] =
            [tokens |-> rlResp.max - 1, resetAt |-> rlResp.now + rlResp.windowMs]

\* C12 witness: a request arrived exactly at the resetAt of an exhausted
\* bucket and was handed on.
C12_AdmittedAtResetInstant ==
    /\ rlResp.status = 200 /\ rlResp.prev # NoBucket
    /\ rlResp.prev.tokens = 0 /\ rlResp.now = rlResp.prev.resetAt

\* C13: every response on a rate-limited route carries X-RateLimit-Limit,
\* X-RateLimit-Remaining and X-RateLimit-Reset, the first of a window
\* included, and every denial carries Retry-After as well.
C13_EveryResponseCarriesMetadata ==
    rlResp.status # 0 =>
        /\ {"X-RateLimit-Limit", "X-RateLimit-Remaining", "X-RateLimit-Reset"}
              \subseteq DOMAIN rlResp.headers
        /\ rlResp.status = 429 => "Retry-After" \in DOMAIN rlResp.headers

\* C14: on every denial Retry-After is the least whole number of seconds
\* that covers resetAt - now, it is at least 1, and X-RateLimit-Remaining
\* is 0.
C14_RetryAfterIsCeiling ==
    rlResp.status = 429 =>
        LET left == rlResp.prev.resetAt - rlResp.now
            retry == rlResp.headers["Retry-After"]
        IN  /\ retry >= 1
            /\ retry * 1000 >= left /\ (retry - 1) * 1000 < left
            /\ rlResp.headers["X-RateLimit-Remaining"] = 0

\* C14 witness: a denial with 59999 ms left of the window reported 60.
C14_PartialSecondRoundedUp ==
    /\ rlResp.status = 429
    /\ rlResp.prev.resetAt - rlResp.now = RateWindowMs - 1
    /\ rlResp.headers["Retry-After"] = 60

\* C15: POST /auth/login for an existing email answers with a session
\* credential exactly when the submitted password matches the stored hash:
\* a wrong password gets 401 and no token; a right one gets a token signed
\* under JWT_SECRET that carries the user's id, email and role and an exp of
\* the issue time in whole seconds plus 3600.
C15_LoginIssuesIffPasswordMatches ==
    \A u \in DOMAIN users :
        (loginResp.status # 0 /\ users[u].email = loginResp.email) =>
            IF loginResp.stored = hashSync(loginResp.password)
            THEN /\ loginResp.status = 200
                 /\ ~BadSignature(loginResp.token)
                 /\ loginResp.token.payload.data =
                        [id |-> u, email |-> users[u].email, role |-> users[u].role]
                 /\ LET exp == loginResp.token.payload.exp - SessionTtlSec
                    IN  exp * 1000 <= loginResp.now /\ loginResp.now < (exp + 1) * 1000
            ELSE /\ loginResp.status = 401
                 /\ loginResp.token = NoCred

\* C15 witness: a login of bob@x with a wrong password was answered 401
\* after one with the right password, made at 1999 ms, had got a token with
\* exp 3601.
C15_RefusedAfterIssued ==
    /\ loginResp.status = 401 /\ loginResp.email = "bob@x"
    /\ loginResp.password = "pw2"
    /\ \E c \in creds :
          /\ c.at = 1999 /\ c.token.payload.data.id = 2
          /\ c.token.payload.exp = 1 + SessionTtlSec

C17_TokensIndependent ==
    /\ [](\A i \in issued :
            (/\ resp.token = i.raw
             /\ resp.kind = (IF i.type = "reset" THEN "reset" ELSE "verify")
             /\ WellFormed(resp)
             /\ resp.now < i.expiresAt
             /\ resp.prior = 0)
            => resp.status = 200)
    /\ [][/\ nextTokenId' # nextTokenId => tokens \subseteq tokens'
          /\ \A t \in tokens :
                t \notin tokens' =>
                    /\ \E r \in Req : /\ reqs[r].kind = "reset"
                                      /\ reqs[r].pc = "markUsed"
                                      /\ reqs[r].rec.id = t.id
                                      /\ reqs'[r] = IdleReq
                    /\ \E u \in tokens' :
                          /\ u.id = t.id /\ u.expiresAt = t.expiresAt
                          /\ u.tokenHash = t.tokenHash
                          /\ t.usedAt = Null]_vars

\* C17 witness: two reset tokens of one account were outstanding, one was
\* redeemed, and the other, presented afterwards, was redeemed as well.
C17_SecondTokenStillRedeems ==
    /\ \E t, u \in tokens :
          /\ t.id # u.id /\ t.userId = u.userId
          /\ t.type = "reset" /\ u.type = "reset"
          /\ t.usedAt # Null /\ u.usedAt # Null
          /\ resp.token \in {i.raw : i \in issued} /\ resp.status = 200
          /\ sha256Hex(resp.token) = u.tokenHash
    /\ \A i \in issued : okCount[i.raw] = 1

\* C19: in a reset-password request the token is marked used no later than
\* the password changes: in no state has a request written the new password
\* while the row of the token that authorised it is still unused and
\* before its expiry.
C19_TokenUsedBeforePasswordChanges ==
    \A r \in Req :
        (/\ reqs[r].kind = "reset"
         /\ reqs[r].pc = "markUsed"
         /\ users[reqs[r].rec.userId].password = hashSync(reqs[r].newPassword))
        => ~\E t \in tokens : /\ t.id = reqs[r].rec.id
                              /\ t.usedAt = Null
                              /\ ~TokenRejected(t, now)

C21_NoRawTokenPersisted ==
    \A t \in tokens :
        /\ \E i \in issued : /\ t.tokenHash = sha256Hex(i.raw)
                             /\ t.type = i.type /\ t.userId = i.userId
                             /\ t.expiresAt = i.expiresAt
        /\ \A i \in issued : t.tokenHash # i.raw
        /\ t.tokenHash \notin {BogusToken, NoToken}

\* C21 witness: a reset row and an idcard row are stored, each under the
\* digest of the raw token its caller received.
C21_BothTypesStoredHashed ==
    /\ \E t \in tokens, i \in issued :
          t.type = "reset" /\ i.type = "reset" /\ t.tokenHash = sha256Hex(i.raw)
    /\ \E t \in tokens, i \in issued :
          t.type = "idcard" /\ i.type = "idcard" /\ t.tokenHash = sha256Hex(i.raw)

\* C22: a failure of the email step of POST /auth/forgot-password does not
\* roll the token back.  Whatever the dispatch did (sent, reported failure,
\* threw), the row created by the request stays in the table, unused until
\* a redemption marks it, and the token presented unused and before its
\* expiry is answered 200.
C22_DispatchFailureKeepsToken ==
    /\ \A l \in forgotLog : l.found => issued # {}
    /\ \A i \in issued :
          /\ \E t \in tokens : /\ t.tokenHash = sha256Hex(i.raw)
                               /\ t.expiresAt = i.expiresAt
                               /\ (t.usedAt = Null <=> okCount[i.raw] = 0)
          /\ (resp.token = i.raw /\ resp.prior = 0 /\ resp.now < i.expiresAt)
                => resp.status = 200

\* C22 witness: the dispatch threw (the request was answered 500) and the
\* token of that request was redeemed afterwards.
C22_RedeemedAfterDispatchThrew ==
    /\ \E l \in forgotLog : l.response.status = 500
    /\ \E i \in issued : resp.token = i.raw /\ resp.status = 200
    /\ \A t \in tokens : t.usedAt # Null

\* C23: failed redemptions cannot be told apart by cause.  For
\* reset-password and for id-card verify alike, a token never issued, one
\* already redeemed and one past its expiry are all answered 410 with the
\* same error body.
C23_FailuresIndistinguishable ==
    (/\ resp.kind \in {"reset", "verify"}
     /\ WellFormed(resp)
     /\ \/ resp.token = BogusToken
        \/ \E i \in issued :
              /\ resp.token = i.raw
              /\ resp.kind = (IF i.type = "reset" THEN "reset" ELSE "verify")
              /\ (resp.prior >= 1 \/ resp.now > i.expiresAt))
    => /\ resp.status = 410
       /\ resp.error = "Token expired or invalid"

\* The request in slot r presents a minted token to the route of the other
\* type.
CrossPresented(r) ==
    \E i \in issued :
        /\ reqs[r].token = i.raw
        /\ reqs[r].kind = (IF i.type = "reset" THEN "verify" ELSE "reset")

\* C24: redemption is scoped by type.  A token minted as 'reset' presented
\* to GET /id-card/verify/:token, and one minted as 'idcard' presented to
\* POST /auth/reset-password, is answered 410 even while unused and before
\* its expiry, and no step of such a request changes a user or a token.
C24_RedemptionScopedByType ==
    /\ [](\A i \in issued :
            (/\ resp.token = i.raw
             /\ resp.kind = (IF i.type = "reset" THEN "verify" ELSE "reset")
             /\ WellFormed(resp))
            => resp.status = 410 /\ resp.error = "Token expired or invalid")
    /\ [][\A r \in Req :
            (CrossPresented(r) /\ reqs'[r] # reqs[r])
            => /\ users' = users /\ tokens' = tokens
               /\ okCount' = okCount]_vars

\* C24 witness: both routes have refused a token of the other type while
\* its row was unused and before its expiry.
C24_CrossPresentedRefused ==
    /\ \E i \in issued, t \in tokens :
          /\ i.type = "reset" /\ resp.token = i.raw /\ resp.kind = "verify"
          /\ resp.status = 410 /\ resp.now < i.expiresAt
          /\ t.tokenHash = sha256Hex(i.raw) /\ t.usedAt = Null
    /\ \E i \in issued : i.type = "idcard"

\* C25: the ceiling holds with requests in flight at once.  While admitted
\* requests of a key are suspended in the downstream handler and others
\* enter, the bucket never counts below zero, its count is max less the
\* requests admitted in the window, those never exceed max, and a denial
\* comes exactly when max were admitted.
C25_CeilingUnderConcurrency ==
    /\ \A k \in Keys :
          /\ window[k].admitted <= MaxOf(k)
          /\ buckets[k] # NoBucket =>
                /\ buckets[k].tokens >= 0
                /\ buckets[k].tokens = MaxOf(k) - window[k].admitted
    /\ rlResp.status = 429 => window[rlResp.key].admitted = rlResp.max

\* C25 witness: a request was denied while MaxPending admitted requests of
\* its key were still suspended in the handler.
C25_DeniedWhileOthersSuspended ==
    /\ rlResp.status = 429
    /\ pending[rlResp.key] = MaxPending
    /\ window[rlResp.key].admitted = ForgotRateMax
    /\ \E k \in Keys : k # rlResp.key /\ pending[k] > 0

\* C26: a denial does not lock the client out beyond the window it
\* reports.  After a denial at t reporting Retry-After = r, the next
\* request of the key at any instant >= t + r seconds is handed on, however
\* many denials came in between; a denial leaves resetAt where it was, at
\* or before every instant reported.
C26_NoLockoutBeyondRetryAfter ==
    /\ (rlResp.status # 0 /\ rlResp.promised # Null
            /\ rlResp.now >= rlResp.promised)
       => rlResp.status = 200
    /\ \A k \in Keys :
          promise[k] # Null => /\ buckets[k].resetAt <= promise[k]
                               /\ promise[k] < buckets[k].resetAt + 1000

\* C26 witness: a key was denied twice in one window, the first time with
\* a partial second left, and its next request, at the instant reported,
\* was handed on.
C26_AdmittedAtReportedInstant ==
    /\ rlResp.status = 200
    /\ rlResp.refused >= 2
    /\ rlResp.promised # Null
    /\ rlResp.now = rlResp.promised
    /\ rlResp.promised > rlResp.prev.resetAt

\* C27: a denied request has no effect.  The step that answers 429 leaves
\* every bucket as it was, its own included, hands nothing to the
\* downstream handler, and changes no token and no user; and tokens are
\* minted only by handlers of requests that were handed on.
C27_DenialHasNoEffect ==
    /\ [][(rlResp' # rlResp /\ rlResp'.status = 429)
            => /\ buckets' = buckets
               /\ pending' = pending
               /\ tokens' = tokens /\ issued' = issued
               /\ users' = users
               /\ forgotLog' = forgotLog]_vars
    /\ [][tokens' # tokens =>
            \E k \in Keys : pending[k] > 0 /\ pending'[k] = pending[k] - 1]_vars

\* C27 witness: a key was denied while the other key had a bucket in
\* course, a request suspended and a token minted.
C27_DeniedAmongActivity ==
    /\ rlResp.status = 429
    /\ buckets[rlResp.key] = rlResp.prev
    /\ \E k \in Keys : /\ k # rlResp.key
                       /\ buckets[k] # NoBucket /\ buckets[k].tokens > 0
                       /\ pending[k] > 0
    /\ tokens # {}

\* C28: every failing POST /auth/reset-password leaves the store unchanged.
\* Passwords and usedAt marks are written by this route alone, so while no
\* reset-password request has succeeded and none is in flight, every
\* password is the one the account was created with and no token is
\* marked used.
C28_FailedResetChangesNothing ==
    (/\ InFlight = {}
     /\ \A i \in issued : okCount[i.raw] = 0)
    => /\ \A u \in DOMAIN users : users[u].password = hashSync("pw1")
       /\ \A t \in tokens : t.usedAt = Null

\* C29: a successful GET /id-card/verify/:token answers the cardId that was
\* passed to the POST /id-card/generate that minted the token, and the
\* owner is the user who generated it.
C29_VerifyReturnsMintedCard ==
    (resp.kind = "verify" /\ resp.status = 200)
    => \E i \in issued : /\ i.raw = resp.token
                         /\ i.type = "idcard"
                         /\ resp.cardId = i.cardId
                         /\ resp.owner = i.userId

====
